---- MODULE Spec2Model ----
(***************************************************************************)
(* Model of the lk-flood-watch data service (src/services/dataService.js): *)
(* the fetch chain fetchRiverData, the normalizer parseRiverData, the      *)
(* classifier determineAlertLevel and the scorer calculateFloodRisk.       *)
(*                                                                         *)
(* JavaScript values are tagged records [t |-> tag, ...].  A JavaScript    *)
(* string is the sequence of its characters.  A JavaScript number is an    *)
(* integer count of 1/100000 units (2.56 is 256000, 0.001 is 100), which   *)
(* represents every decimal literal of the source exactly; NaN is a value  *)
(* of its own.                                                             *)
(***************************************************************************)
EXTENDS Integers, Sequences, FiniteSets, TLC

VARIABLES
    \* one invocation of fetchRiverData
    pc,          \* position of the invocation
    requests,    \* the sources requested so far, in order
    inflight,    \* the sources whose request has not settled
    settled,     \* source -> what fetchFromSource returned for it
    data,        \* the local variable `data`
    outcome,     \* how the invocation completed
    \* one evaluation of determineAlertLevel on two levels of one station
    clsName, clsA, clsB, clsTierA, clsTierB, clsPc,
    \* one evaluation of calculateFloodRisk
    stations, idx, totalRisk, criticalStationRisk, score, riskPc,
    \* one evaluation of parseRiverData
    normRaw,         \* the argument rawData
    normList,        \* the station list rawData was built from
    normShape,       \* how rawData holds that list
    normNow,         \* the time of the evaluation
    normIdx,         \* the element that stations.map visits next
    normMapped,      \* the records mapped so far
    normClassified,  \* the levels passed to determineAlertLevel so far
    normOut,         \* what parseRiverData returned, or that it threw
    normPc,
    \* the App component: its state after each handler has run to its end
    mounted,     \* the effect of useEffect has run
    riverData, loading, error, refreshing, floodRisk,
    started,     \* the number of calls of loadRiverData so far
    pending,     \* the calls of loadRiverData that wait for fetchRiverData
    completed    \* the calls that have run to their end, in that order

fetchVars == <<pc, requests, inflight, settled, data, outcome>>
clsVars   == <<clsName, clsA, clsB, clsTierA, clsTierB, clsPc>>
riskVars  == <<stations, idx, totalRisk, criticalStationRisk, score, riskPc>>
normVars  == <<normRaw, normList, normShape, normNow, normIdx, normMapped,
               normClassified, normOut, normPc>>
appVars   == <<mounted, riverData, loading, error, refreshing, floodRisk,
               started, pending, completed>>
vars      == <<fetchVars, clsVars, riskVars, normVars, appVars>>

----------------------------------------------------------------------------
(* JavaScript values *)

Undefined == [t |-> "undefined"]
Null      == [t |-> "null"]
NaN       == [t |-> "nan"]
Num(n)    == [t |-> "num", v |-> n]
Str(s)    == [t |-> "str", v |-> s]
Bool(b)   == [t |-> "bool", v |-> b]
Arr(s)    == [t |-> "arr", v |-> s]
Obj(f)    == [t |-> "obj", v |-> f]

\* ToBoolean, as applied by `!x`, `a || b` and `if (x)`
Truthy(x) ==
    CASE x.t \in {"undefined", "null", "nan"} -> FALSE
      [] x.t = "num"  -> x.v # 0
      [] x.t = "str"  -> x.v # << >>
      [] x.t = "bool" -> x.v
      [] OTHER        -> TRUE

\* a || b
Or(a, b) == IF Truthy(a) THEN a ELSE b

\* x.f where x is not null or undefined (which throw): own property of an
\* object, undefined on a value that has no such property
Get(x, f) ==
    IF x.t = "obj" /\ f \in DOMAIN x.v THEN x.v[f] ELSE Undefined

\* x.f throws a TypeError
GetThrows(x) == x.t \in {"null", "undefined"}

\* x.length
Length(x) ==
    IF x.t \in {"arr", "str"} THEN Num(100000 * Len(x.v)) ELSE Get(x, "length")

----------------------------------------------------------------------------
(* parseFloat *)

Digits == {"0", "1", "2", "3", "4", "5", "6", "7", "8", "9"}

DigitVal(c) ==
    CASE c = "0" -> 0 [] c = "1" -> 1 [] c = "2" -> 2 [] c = "3" -> 3
      [] c = "4" -> 4 [] c = "5" -> 5 [] c = "6" -> 6 [] c = "7" -> 7
      [] c = "8" -> 8 [] c = "9" -> 9

RECURSIVE SkipSpaces(_, _)
SkipSpaces(s, i) ==
    IF i <= Len(s) /\ s[i] = " " THEN SkipSpaces(s, i + 1) ELSE i

\* the index after the run of digits of s that starts at i
RECURSIVE DigitsEnd(_, _)
DigitsEnd(s, i) ==
    IF i <= Len(s) /\ s[i] \in Digits THEN DigitsEnd(s, i + 1) ELSE i

\* the integer written by the digits s[i..j-1]
RECURSIVE IntPart(_, _, _)
IntPart(s, i, j) ==
    IF j <= i THEN 0 ELSE 10 * IntPart(s, i, j - 1) + DigitVal(s[j - 1])

\* the fraction written by the digits s[i..j-1], in units of 1/100000
RECURSIVE FracPart(_, _, _, _)
FracPart(s, i, j, unit) ==
    IF i >= j \/ unit = 0 THEN 0
    ELSE unit * DigitVal(s[i]) + FracPart(s, i + 1, j, unit \div 10)

\* parseFloat of a string: the longest prefix, after leading blanks, that is
\* a decimal literal [sign] digits [. digits]; NaN when that prefix has no
\* digit
ParseFloatStr(s) ==
    LET b  == SkipSpaces(s, 1)
        sg == IF b <= Len(s) /\ s[b] \in {"+", "-"} THEN b + 1 ELSE b
        ie == DigitsEnd(s, sg)
        fs == IF ie <= Len(s) /\ s[ie] = "." THEN ie + 1 ELSE ie
        fe == DigitsEnd(s, fs)
        mag == 100000 * IntPart(s, sg, ie) + FracPart(s, fs, fe, 10000)
    IN  IF ie = sg /\ fe = fs THEN NaN
        ELSE IF sg > b /\ s[b] = "-" THEN Num(0 - mag) ELSE Num(mag)

\* parseFloat(x): x is converted to a string first.  A number prints as a
\* literal that parses back to itself; true, false, null, undefined and an
\* object print as text that starts with no digit; an array prints as its
\* elements joined by commas, so it parses as its first element does.
RECURSIVE parseFloat(_)
parseFloat(x) ==
    CASE x.t = "num" -> x
      [] x.t = "str" -> ParseFloatStr(x.v)
      [] x.t = "arr" ->
            IF x.v = << >> \/ x.v[1].t \in {"null", "undefined"} THEN NaN
            ELSE parseFloat(x.v[1])
      [] OTHER -> NaN

----------------------------------------------------------------------------
(* Texts of the source *)

NagalagamStreet == <<"N", "a", "g", "a", "l", "a", "g", "a", "m", " ", "S", "t", "r", "e", "e", "t">>
Peradeniya == <<"P", "e", "r", "a", "d", "e", "n", "i", "y", "a">>
Moragaswewa == <<"M", "o", "r", "a", "g", "a", "s", "w", "e", "w", "a">>
Thanthirimale == <<"T", "h", "a", "n", "t", "h", "i", "r", "i", "m", "a", "l", "e">>
Hanwella == <<"H", "a", "n", "w", "e", "l", "l", "a">>
Glencourse == <<"G", "l", "e", "n", "c", "o", "u", "r", "s", "e">>
Rathnapura == <<"R", "a", "t", "h", "n", "a", "p", "u", "r", "a">>
Kalawellawa == <<"K", "a", "l", "a", "w", "e", "l", "l", "a", "w", "a">>
Default == <<"d", "e", "f", "a", "u", "l", "t">>
UnknownStation == <<"U", "n", "k", "n", "o", "w", "n", " ", "S", "t", "a", "t", "i", "o", "n">>
UnknownRiver == <<"U", "n", "k", "n", "o", "w", "n", " ", "R", "i", "v", "e", "r">>
KelaniGanga == <<"K", "e", "l", "a", "n", "i", " ", "G", "a", "n", "g", "a">>
MahaweliGanga == <<"M", "a", "h", "a", "w", "e", "l", "i", " ", "G", "a", "n", "g", "a">>
DeduruOya == <<"D", "e", "d", "u", "r", "u", " ", "O", "y", "a">>
MalwathuOya == <<"M", "a", "l", "w", "a", "t", "h", "u", " ", "O", "y", "a">>
KaluGanga == <<"K", "a", "l", "u", " ", "G", "a", "n", "g", "a">>

\* the four alert labels; the leading symbol of each is one character
MajorFlood == <<"red-circle", " ", "M", "a", "j", "o", "r", " ", "F", "l", "o", "o", "d">>
MinorFlood == <<"orange-circle", " ", "M", "i", "n", "o", "r", " ", "F", "l", "o", "o", "d">>
Alert      == <<"yellow-circle", " ", "A", "l", "e", "r", "t">>
Normal     == <<"green-circle", " ", "N", "o", "r", "m", "a", "l">>

AlertTiers == {MajorFlood, MinorFlood, Alert, Normal}

----------------------------------------------------------------------------
(* Static tables *)

DATA_SOURCES == [irrigation |-> "irrigation", dmc |-> "dmc"]

CRITICAL_STATIONS ==
    NagalagamStreet :> [river |-> KelaniGanga,   lat |-> 696027, lng |-> 7987858, priority |-> 1]
 @@ Peradeniya      :> [river |-> MahaweliGanga, lat |-> 726417, lng |-> 8059362, priority |-> 1]
 @@ Moragaswewa     :> [river |-> DeduruOya,     lat |-> 773187, lng |-> 8024296, priority |-> 1]
 @@ Thanthirimale   :> [river |-> MalwathuOya,   lat |-> 858076, lng |-> 8028401, priority |-> 1]

ALERT_THRESHOLDS ==
    NagalagamStreet :> [major |-> 240000,  minor |-> 200000,  alert |-> 160000]
 @@ Peradeniya      :> [major |-> 800000,  minor |-> 650000,  alert |-> 550000]
 @@ Moragaswewa     :> [major |-> 750000,  minor |-> 600000,  alert |-> 500000]
 @@ Thanthirimale   :> [major |-> 900000,  minor |-> 750000,  alert |-> 650000]
 @@ Hanwella        :> [major |-> 900000,  minor |-> 750000,  alert |-> 650000]
 @@ Glencourse      :> [major |-> 1500000, minor |-> 1350000, alert |-> 1200000]
 @@ Rathnapura      :> [major |-> 700000,  minor |-> 550000,  alert |-> 450000]
 @@ Kalawellawa     :> [major |-> 800000,  minor |-> 650000,  alert |-> 550000]
 @@ Default         :> [major |-> 1000000, minor |-> 750000,  alert |-> 500000]

\* table[key] is defined: key, used as a property name, names an entry.
\* Station names are texts other than the names of the members every
\* JavaScript object inherits.
HasEntry(table, key) == key.t = "str" /\ key.v \in DOMAIN table

\* a >= c and a > c for a JavaScript value a and a number c: null counts as
\* 0, NaN and undefined compare false
GE(a, c) == (a.t = "num" /\ a.v >= c) \/ (a.t = "null" /\ 0 >= c)
GT(a, c) == (a.t = "num" /\ a.v > c) \/ (a.t = "null" /\ 0 > c)

----------------------------------------------------------------------------
(* Classifier *)

Thresholds(stationName) ==
    IF HasEntry(ALERT_THRESHOLDS, stationName)
    THEN ALERT_THRESHOLDS[stationName.v]
    ELSE ALERT_THRESHOLDS[Default]

\* determineAlertLevel with `>` for `>=`
determineAlertLevelStrict(stationName, level) ==
    LET thresholds == Thresholds(stationName)
    IN  IF GT(level, thresholds.major) THEN MajorFlood
        ELSE IF GT(level, thresholds.minor) THEN MinorFlood
        ELSE IF GT(level, thresholds.alert) THEN Alert
        ELSE Normal

\* determineAlertLevel with the major test turned round (`<=` for `>=`)
determineAlertLevelFlipped(stationName, level) ==
    LET thresholds == Thresholds(stationName)
    IN  IF level.t = "num" /\ level.v <= thresholds.major THEN MajorFlood
        ELSE IF GE(level, thresholds.minor) THEN MinorFlood
        ELSE IF GE(level, thresholds.alert) THEN Alert
        ELSE Normal


determineAlertLevel(stationName, level) ==
    LET thresholds == Thresholds(stationName)
    IN  IF GE(level, thresholds.major) THEN MajorFlood
        ELSE IF GE(level, thresholds.minor) THEN MinorFlood
        ELSE IF GE(level, thresholds.alert) THEN Alert
        ELSE Normal

----------------------------------------------------------------------------
(* Normalizer *)

getStationName(station) ==
    Or(Or(Or(Or(Get(station, "station_name"), Get(station, "station")),
             Get(station, "name")), Get(station, "Station")),
       Str(UnknownStation))

RegistryRiver(stationName) ==
    IF HasEntry(CRITICAL_STATIONS, stationName)
    THEN Str(CRITICAL_STATIONS[stationName.v].river)
    ELSE Undefined

getRiverName(station) ==
    Or(Or(Or(Or(Or(Get(station, "river_basin"), Get(station, "river")),
                Get(station, "basin")), Get(station, "River")),
          RegistryRiver(getStationName(station))),
       Str(UnknownRiver))

getWaterLevel(station) ==
    LET level == Or(Or(Or(Or(Get(station, "level_m"), Get(station, "level")),
                          Get(station, "water_level")), Get(station, "Level")),
                    Null)
    IN  IF level # Null THEN parseFloat(level) ELSE Null

\* getCoordinates without the lookup in CRITICAL_STATIONS
getCoordinatesNoRegistry(station, stationName) ==
    IF Truthy(Get(station, "latitude")) /\ Truthy(Get(station, "longitude"))
    THEN [lat |-> parseFloat(Get(station, "latitude")),
          lng |-> parseFloat(Get(station, "longitude"))]
    ELSE [lat |-> Num(787310), lng |-> Num(8077180)]

getCoordinates(station, stationName) ==
    IF Truthy(Get(station, "latitude")) /\ Truthy(Get(station, "longitude"))
    THEN [lat |-> parseFloat(Get(station, "latitude")),
          lng |-> parseFloat(Get(station, "longitude"))]
    ELSE IF HasEntry(CRITICAL_STATIONS, stationName)
    THEN [lat |-> Num(CRITICAL_STATIONS[stationName.v].lat),
          lng |-> Num(CRITICAL_STATIONS[stationName.v].lng)]
    ELSE [lat |-> Num(787310), lng |-> Num(8077180)]

\* new Date().toISOString() at time now
IsoTime(now) == Str(<<"T">> \o now)

getTimestamp(station, now) ==
    Or(Or(Or(Or(Get(station, "measured_at"), Get(station, "timestamp")),
             Get(station, "time")), Get(station, "Timestamp")),
       IsoTime(now))

getRateOfRise(station) ==
    LET rate == Or(Or(Or(Get(station, "rate_of_rise"), Get(station, "rate")),
                      Get(station, "change_rate")),
                   Num(0))
    IN  parseFloat(rate)

\* the callback of stations.map
MapStation(station, now) ==
    LET stationName == getStationName(station)
        riverName   == getRiverName(station)
        level       == getWaterLevel(station)
        coordinates == getCoordinates(station, stationName)
        timestamp   == getTimestamp(station, now)
        rateOfRise  == getRateOfRise(station)
    IN  [station      |-> stationName,
         river        |-> riverName,
         level        |-> level,
         alert        |-> determineAlertLevel(stationName, level),
         rateOfRise   |-> rateOfRise,
         rising       |-> GT(rateOfRise, 100),
         lastMeasured |-> timestamp,
         coordinates  |-> coordinates,
         isCritical   |-> HasEntry(CRITICAL_STATIONS, stationName)]

\* the predicate of .filter
KeepStation(reading) == reading.level # Null

\* StationsOf without the branch for the data key
StationsOfNoData(rawData) ==
    IF rawData.t = "arr" THEN rawData
    ELSE IF Truthy(Get(rawData, "stations")) THEN Get(rawData, "stations")
    ELSE Arr(<< >>)

\* the list that parseRiverData maps over
StationsOf(rawData) ==
    IF rawData.t = "arr" THEN rawData
    ELSE IF Truthy(Get(rawData, "stations")) THEN Get(rawData, "stations")
    ELSE IF Truthy(Get(rawData, "data")) THEN Get(rawData, "data")
    ELSE Arr(<< >>)

\* parseRiverData(rawData): [threw |-> TRUE] when a TypeError leaves it,
\* else [threw |-> FALSE, value |-> the list it returns]
parseRiverData(rawData, now) ==
    IF ~Truthy(rawData) THEN [threw |-> FALSE, value |-> << >>]
    ELSE LET list == StationsOf(rawData)
         IN  IF list.t # "arr" THEN [threw |-> TRUE]
             ELSE IF \E i \in 1..Len(list.v) : GetThrows(list.v[i])
             THEN [threw |-> TRUE]
             ELSE [threw |-> FALSE,
                   value |-> SelectSeq([i \in 1..Len(list.v) |-> MapStation(list.v[i], now)],
                                       KeepStation)]

----------------------------------------------------------------------------
(* Built-in sample data *)

Reading(station, river, level, alert, rateOfRise, rising, now, lat, lng, isCritical) ==
    [station      |-> Str(station),
     river        |-> Str(river),
     level        |-> Num(level),
     alert        |-> alert,
     rateOfRise   |-> Num(rateOfRise),
     rising       |-> rising,
     lastMeasured |-> IsoTime(now),
     coordinates  |-> [lat |-> Num(lat), lng |-> Num(lng)],
     isCritical   |-> isCritical]

getSampleData(now) ==
    << Reading(NagalagamStreet, KelaniGanga,    256000, MajorFlood,   1500, TRUE,  now, 696027, 7987858, TRUE),
       Reading(Peradeniya,      MahaweliGanga, 1056000, MajorFlood,  59500, TRUE,  now, 726417, 8059362, TRUE),
       Reading(Moragaswewa,     DeduruOya,      833000, MajorFlood,   5100, TRUE,  now, 773187, 8024296, TRUE),
       Reading(Thanthirimale,   MalwathuOya,   1064000, MajorFlood,  -3300, FALSE, now, 858076, 8028401, TRUE),
       Reading(Hanwella,        KelaniGanga,    969000, MinorFlood,  -8700, FALSE, now, 691049, 8008134, FALSE),
       Reading(Glencourse,      KelaniGanga,   1358000, Normal,     -19000, FALSE, now, 697574, 8018661, FALSE),
       Reading(Rathnapura,      KaluGanga,      582000, Alert,       -5900, FALSE, now, 668986, 8038028, FALSE),
       Reading(Kalawellawa,     KaluGanga,      738000, MinorFlood,  -5100, FALSE, now, 663151, 8016073, FALSE) >>

----------------------------------------------------------------------------
(* Risk scorer *)

\* s.includes(sub)
Includes(s, sub) ==
    \E i \in 1..(Len(s) - Len(sub) + 1) : SubSeq(s, i, i + Len(sub) - 1) = sub

\* StationRisk with `>=` for `>` in the test of rateOfRise
StationRiskInclusive(station) ==
    LET severity == IF Includes(station.alert, <<"M", "a", "j", "o", "r">>) THEN 40
                    ELSE IF Includes(station.alert, <<"M", "i", "n", "o", "r">>) THEN 25
                    ELSE IF Includes(station.alert, <<"A", "l", "e", "r", "t">>) THEN 10
                    ELSE 0
        rise     == IF station.rising /\ GE(station.rateOfRise, 5000) THEN 20
                    ELSE IF station.rising THEN 10
                    ELSE 0
    IN  severity + rise

\* the value of `risk` at the end of one iteration of the forEach callback
StationRisk(station) ==
    LET severity == IF Includes(station.alert, <<"M", "a", "j", "o", "r">>) THEN 40
                    ELSE IF Includes(station.alert, <<"M", "i", "n", "o", "r">>) THEN 25
                    ELSE IF Includes(station.alert, <<"A", "l", "e", "r", "t">>) THEN 10
                    ELSE 0
        rise     == IF station.rising /\ GT(station.rateOfRise, 5000) THEN 20
                    ELSE IF station.rising THEN 10
                    ELSE 0
    IN  severity + rise

\* CriticalRisk without the factor 2
CriticalRiskOnce(station) ==
    IF station.isCritical THEN StationRisk(station) ELSE 0

\* what one iteration adds to criticalStationRisk
CriticalRisk(station) ==
    IF station.isCritical THEN StationRisk(station) * 2 ELSE 0

\* OverallRisk without Math.min
OverallRiskNoClamp(total, divisor) ==
    (2 * total + divisor) \div (2 * divisor)

\* Math.round(Math.min(100, total / divisor)) for total >= 0, divisor > 0:
\* Math.round takes the nearest integer, a half upwards
OverallRisk(total, divisor) ==
    IF total >= 100 * divisor THEN 100
    ELSE (2 * total + divisor) \div (2 * divisor)

\* the guard `!stations || stations.length === 0`
NoStations(list) == ~Truthy(list) \/ Length(list) = Num(0)

\* totalRisk + criticalStationRisk after stations.forEach over list
RECURSIVE AccumulatedRisk(_)
AccumulatedRisk(list) ==
    IF list = << >> THEN 0
    ELSE StationRisk(Head(list)) + CriticalRisk(Head(list))
             + AccumulatedRisk(Tail(list))

calculateFloodRisk(list) ==
    IF NoStations(list) THEN 0
    ELSE OverallRisk(AccumulatedRisk(list.v), Len(list.v) + 4)

----------------------------------------------------------------------------
(* Inputs of the fetch chain *)

MaxStations == 2

\* the times at which an invocation can read the clock
Times == {<<"1">>, <<"2">>}

EmptyObj == Obj([f \in {} |-> Null])

\* the ways a raw station names itself and states its level
NameFields ==
    { [f \in {} |-> Null],
      [station_name |-> Str(Peradeniya)],
      [station |-> Str(Hanwella)] }

LevelFields ==
    { [f \in {} |-> Null],
      [level |-> Num(800000)],
      [level_m |-> Str(<<"6", ".", "5">>)],
      [level |-> Str(<<"a", "b", "c">>)] }

\* the elements a station list can hold: station objects, and null
RawStations ==
    { Obj(n @@ l) : n \in NameFields, l \in LevelFields } \cup {Null}

RawLists ==
    UNION { [1..n -> RawStations] : n \in 0..MaxStations }

\* the JSON documents a source can answer with
Payloads ==
       { Arr(l) : l \in RawLists }
  \cup { Obj([stations |-> Arr(l)]) : l \in RawLists }
  \cup { Obj([data |-> Arr(l)]) : l \in RawLists }
  \cup { Null, Bool(FALSE), Str(<< >>), Num(500000), EmptyObj,
         Obj([stations |-> Str(<<"a", "b", "c">>)]),
         Obj([data |-> Num(100000)]) }

\* how a request can end: fetch rejects, the status is not ok, the body is
\* not JSON, or the body is a JSON document
Responses ==
       { [kind |-> "reject"], [kind |-> "status"], [kind |-> "badjson"] }
  \cup { [kind |-> "json", body |-> p] : p \in Payloads }

Pending == [t |-> "pending"]

----------------------------------------------------------------------------
(* Fetch chain *)

\* fetchFromSource(url), given how the request ends
fetchFromSource(response) ==
    IF response.kind = "json" THEN response.body ELSE Null

\* NeedsFallback with `>= 0` for `=== 0`
NeedsFallbackAnyLength(d) == ~Truthy(d) \/ GE(Length(d), 0)

\* the test `!data || data.length === 0`
NeedsFallback(d) == ~Truthy(d) \/ Length(d) = Num(0)

\* Complete without the catch clause
CompleteNoCatch(parsed, now) ==
    IF parsed.threw
    THEN [kind |-> "raised", via |-> "none", value |-> << >>]
    ELSE [kind |-> "returned", via |-> "normalizer", value |-> parsed.value]

\* leaving the try block of fetchRiverData with the result of parseRiverData
Complete(parsed, now) ==
    IF parsed.threw
    THEN [kind |-> "returned", via |-> "catch", value |-> getSampleData(now)]
    ELSE [kind |-> "returned", via |-> "normalizer", value |-> parsed.value]

\* Finish without the second test of `data`
FinishNoSample(d, now) ==
    Complete(parseRiverData(d, now), now)

\* fetchRiverData from its second test of `data` to its end
Finish(d, now) ==
    IF NeedsFallback(d)
    THEN [kind |-> "returned", via |-> "sample", value |-> getSampleData(now)]
    ELSE Complete(parseRiverData(d, now), now)

FetchInit ==
    /\ pc = "idle"
    /\ requests = << >>
    /\ inflight = {}
    /\ settled = [irrigation |-> Pending, dmc |-> Pending]
    /\ data = Undefined
    /\ outcome = [kind |-> "none"]

\* fetchRiverData is called: it requests the primary source and waits
Invoke ==
    /\ pc = "idle"
    /\ requests' = Append(requests, DATA_SOURCES.irrigation)
    /\ inflight' = inflight \cup {DATA_SOURCES.irrigation}
    /\ pc' = "awaitPrimary"
    /\ UNCHANGED <<settled, data, outcome>>

\* the primary request settles; fetchRiverData runs on to the secondary
\* request or to its end
SettlePrimary ==
    /\ pc = "awaitPrimary"
    /\ \E response \in Responses, now \in Times :
         LET d == fetchFromSource(response)
         IN  /\ data' = d
             /\ settled' = [settled EXCEPT !.irrigation = d]
             /\ IF NeedsFallback(d)
                THEN /\ requests' = Append(requests, DATA_SOURCES.dmc)
                     /\ inflight' = (inflight \ {DATA_SOURCES.irrigation})
                                        \cup {DATA_SOURCES.dmc}
                     /\ pc' = "awaitSecondary"
                     /\ UNCHANGED outcome
                ELSE /\ inflight' = inflight \ {DATA_SOURCES.irrigation}
                     /\ outcome' = Finish(d, now)
                     /\ pc' = "done"
                     /\ UNCHANGED requests

\* the secondary request settles; fetchRiverData runs to its end
SettleSecondary ==
    /\ pc = "awaitSecondary"
    /\ \E response \in Responses, now \in Times :
         LET d == fetchFromSource(response)
         IN  /\ data' = d
             /\ settled' = [settled EXCEPT !.dmc = d]
             /\ inflight' = inflight \ {DATA_SOURCES.dmc}
             /\ outcome' = Finish(d, now)
             /\ pc' = "done"
             /\ UNCHANGED requests

----------------------------------------------------------------------------
(* Evaluations of the classifier *)

Cutoffs ==
    UNION { {ALERT_THRESHOLDS[n].major, ALERT_THRESHOLDS[n].minor, ALERT_THRESHOLDS[n].alert}
            : n \in DOMAIN ALERT_THRESHOLDS }

\* the levels classified: every cutoff of the table, its two neighbours
\* one unit (0.00001 m) below and above, and 0
ClsLevels == { c + d : c \in Cutoffs, d \in {-1, 0, 1} } \cup {0}

\* the names classified: every name of the table and two names outside it
ClsNames ==
    { Str(n) : n \in (DOMAIN ALERT_THRESHOLDS) \ {Default} }
        \cup { Str(UnknownStation), Str(<<"G", "a", "l", "l", "e">>) }

ClsInit ==
    /\ clsName \in ClsNames
    /\ clsA \in ClsLevels
    /\ clsB \in ClsLevels
    /\ clsA <= clsB
    /\ clsTierA = << >>
    /\ clsTierB = << >>
    /\ clsPc = "start"

ClsIdle ==
    /\ clsName = Str(UnknownStation)
    /\ clsA = 0
    /\ clsB = 0
    /\ clsTierA = << >>
    /\ clsTierB = << >>
    /\ clsPc = "idle"

Classify ==
    /\ clsPc = "start"
    /\ clsTierA' = determineAlertLevel(clsName, Num(clsA))
    /\ clsTierB' = determineAlertLevel(clsName, Num(clsB))
    /\ clsPc' = "done"
    /\ UNCHANGED <<clsName, clsA, clsB>>

----------------------------------------------------------------------------
(* Evaluations of the risk scorer *)

MaxRiskLen == 6

\* the instant of the sample data scored
SampleTime == <<"1">>

\* the readings the scored lists are made of
RiskStations ==
    { getSampleData(SampleTime)[i] : i \in {1, 2, 5, 6} }

\* the trends a reading can show: rateOfRise with rising = rateOfRise > 0.001
Trends ==
    { [rate |-> r, rising |-> r > 100] : r \in {-3300, 0, 1500, 5000, 5100, 59500} }

\* one reading for every tier, trend and criticality
ContributionStations ==
    { Reading(Hanwella, KelaniGanga, 969000, a, tr.rate, tr.rising,
              SampleTime, 691049, 8008134, c)
        : a \in AlertTiers, tr \in Trends, c \in BOOLEAN }

\* the arguments of calculateFloodRisk: absent, null, a list of up to
\* MaxRiskLen readings, the built-in sample data, or a list of one reading
RiskInputs ==
       { Undefined, Null, Arr(getSampleData(SampleTime)) }
  \cup { Arr(l) : l \in UNION { [1..n -> RiskStations] : n \in 0..MaxRiskLen } }
  \cup { Arr(<<r>>) : r \in ContributionStations }

RiskInit ==
    /\ stations \in RiskInputs
    /\ idx = 0
    /\ totalRisk = 0
    /\ criticalStationRisk = 0
    /\ score = -1
    /\ riskPc = "start"

RiskIdle ==
    /\ stations = Undefined
    /\ idx = 0
    /\ totalRisk = 0
    /\ criticalStationRisk = 0
    /\ score = -1
    /\ riskPc = "idle"

\* calculateFloodRisk is entered: it returns 0 at once or starts the loop
RiskEnter ==
    /\ riskPc = "start"
    /\ IF NoStations(stations)
       THEN /\ score' = 0
            /\ riskPc' = "done"
            /\ UNCHANGED idx
       ELSE /\ idx' = 1
            /\ riskPc' = "loop"
            /\ UNCHANGED score
    /\ UNCHANGED <<stations, totalRisk, criticalStationRisk>>

\* one iteration of stations.forEach
RiskStep ==
    /\ riskPc = "loop"
    /\ idx <= Len(stations.v)
    /\ criticalStationRisk' = criticalStationRisk + CriticalRisk(stations.v[idx])
    /\ totalRisk' = totalRisk + StationRisk(stations.v[idx])
    /\ idx' = idx + 1
    /\ UNCHANGED <<stations, score, riskPc>>

\* the statements after the loop
RiskReturn ==
    /\ riskPc = "loop"
    /\ idx > Len(stations.v)
    /\ score' = OverallRisk(totalRisk + criticalStationRisk, Len(stations.v) + 4)
    /\ riskPc' = "done"
    /\ UNCHANGED <<stations, idx, totalRisk, criticalStationRisk>>

----------------------------------------------------------------------------
(* Evaluations of the normalizer *)

\* the ways a raw station states its river, its rate of rise and its place
RiverFields ==
    { [f \in {} |-> Null],
      [river_basin |-> Str(KaluGanga)] }

RateFields ==
    { [f \in {} |-> Null],
      [rate_of_rise |-> Num(5100)] }

PlaceFields ==
    { [f \in {} |-> Null],
      [latitude |-> Str(<<"6", ".", "5">>), longitude |-> Str(<<"8", "0", ".", "1">>)],
      [latitude |-> Num(650000)] }

\* station objects with every combination of present and absent fields; the
\* level can also be the number 0
NormStations ==
    { Obj(n @@ l @@ r @@ q @@ c) :
        n \in NameFields, l \in LevelFields \cup {[level |-> Num(0)]},
        r \in RiverFields, q \in RateFields, c \in PlaceFields }

\* a record of the canonical shape, as a payload would carry it
ToRaw(reading) ==
    Obj([station      |-> reading.station,
         river        |-> reading.river,
         level        |-> reading.level,
         alert        |-> Str(reading.alert),
         rateOfRise   |-> reading.rateOfRise,
         rising       |-> Bool(reading.rising),
         lastMeasured |-> reading.lastMeasured,
         coordinates  |-> Obj(reading.coordinates),
         isCritical   |-> Bool(reading.isCritical)])

\* records of the canonical shape: the built-in sample records, and one
\* whose level is 0
CanonicalStations ==
    { ToRaw(getSampleData(SampleTime)[i]) : i \in 1..8 }
        \cup { ToRaw(Reading(Hanwella, KelaniGanga, 0, Normal, 0, FALSE,
                             SampleTime, 691049, 8008134, FALSE)) }

\* the station lists normalized
NormLists ==
    RawLists \cup { <<x>> : x \in NormStations \cup CanonicalStations }

\* the arguments of parseRiverData: a list bare, under the stations key or
\* under the data key; null, undefined and objects with neither key; and
\* objects whose stations or data value is no array
NormInputs ==
       { [raw |-> Arr(l), list |-> l, shape |-> "bare"] : l \in NormLists }
  \cup { [raw |-> Obj([stations |-> Arr(l)]), list |-> l, shape |-> "stations"] : l \in NormLists }
  \cup { [raw |-> Obj([data |-> Arr(l)]), list |-> l, shape |-> "data"] : l \in NormLists }
  \cup { [raw |-> x, list |-> << >>, shape |-> "none"]
           : x \in {Null, Undefined, EmptyObj, Obj([count |-> Num(300000)])} }
  \cup { [raw |-> x, list |-> << >>, shape |-> "noarray"]
           : x \in {Obj([stations |-> Str(<<"a", "b", "c">>)]), Obj([data |-> Num(100000)])} }

NormInit ==
    /\ \E input \in NormInputs :
         /\ normRaw = input.raw
         /\ normList = input.list
         /\ normShape = input.shape
    /\ normNow \in Times
    /\ normIdx = 0
    /\ normMapped = << >>
    /\ normClassified = << >>
    /\ normOut = [threw |-> FALSE, value |-> << >>]
    /\ normPc = "start"

NormIdle ==
    /\ normRaw = Undefined
    /\ normList = << >>
    /\ normShape = "none"
    /\ normNow = SampleTime
    /\ normIdx = 0
    /\ normMapped = << >>
    /\ normClassified = << >>
    /\ normOut = [threw |-> FALSE, value |-> << >>]
    /\ normPc = "idle"

\* parseRiverData is entered: it returns [] at once, fails on a list that
\* has no map method, or starts stations.map
NormEnter ==
    /\ normPc = "start"
    /\ IF ~Truthy(normRaw)
       THEN /\ normOut' = [threw |-> FALSE, value |-> << >>]
            /\ normPc' = "done"
            /\ UNCHANGED normIdx
       ELSE IF StationsOf(normRaw).t # "arr"
       THEN /\ normOut' = [threw |-> TRUE]
            /\ normPc' = "done"
            /\ UNCHANGED normIdx
       ELSE /\ normIdx' = 1
            /\ normPc' = "map"
            /\ UNCHANGED normOut
    /\ UNCHANGED <<normRaw, normList, normShape, normNow, normMapped, normClassified>>

\* one call of the callback of stations.map
NormMapStep ==
    /\ normPc = "map"
    /\ normIdx <= Len(StationsOf(normRaw).v)
    /\ LET station == StationsOf(normRaw).v[normIdx]
       IN  IF GetThrows(station)
           THEN /\ normOut' = [threw |-> TRUE]
                /\ normPc' = "done"
                /\ UNCHANGED <<normIdx, normMapped, normClassified>>
           ELSE /\ normMapped' = Append(normMapped, MapStation(station, normNow))
                /\ normClassified' = Append(normClassified, getWaterLevel(station))
                /\ normIdx' = normIdx + 1
                /\ UNCHANGED <<normOut, normPc>>
    /\ UNCHANGED <<normRaw, normList, normShape, normNow>>

\* .filter on the mapped list, and the return
NormFilter ==
    /\ normPc = "map"
    /\ normIdx > Len(StationsOf(normRaw).v)
    /\ normOut' = [threw |-> FALSE, value |-> SelectSeq(normMapped, KeepStation)]
    /\ normPc' = "done"
    /\ UNCHANGED <<normRaw, normList, normShape, normNow, normIdx, normMapped,
                   normClassified>>

----------------------------------------------------------------------------
(* The App component *)

MaxLoads == 3

\* lists that fetchRiverData returns: the sample data, the empty list, and
\* two lists of one station
FetchResults ==
    { Finish(d, SampleTime).value :
        d \in { Null, EmptyObj,
                Arr(<<Obj([station_name |-> Str(Peradeniya), level |-> Num(800000)])>>),
                Arr(<<Obj([station |-> Str(Hanwella), level_m |-> Str(<<"6", ".", "5">>)])>>) } }

\* the useState initial values; no effect has run
AppInit ==
    /\ mounted = FALSE
    /\ riverData = << >>
    /\ loading = TRUE
    /\ error = Null
    /\ refreshing = FALSE
    /\ floodRisk = 0
    /\ started = 0
    /\ pending = {}
    /\ completed = << >>

AppIdle == AppInit

\* setRiverData(data) with a load's result
NextRiverDataKeep(shown, loaded) == IF shown = << >> THEN loaded ELSE shown

NextRiverData(shown, loaded) == loaded

\* setFloodRisk(calculateFloodRisk(data)) with a load's result
NextFloodRiskOfShown(shown, loaded) == calculateFloodRisk(Arr(shown))

NextFloodRisk(shown, loaded) == calculateFloodRisk(Arr(loaded))

\* loadRiverData(showRefreshing) up to its await
StartLoad(showRefreshing) ==
    /\ started < MaxLoads
    /\ started' = started + 1
    /\ pending' = pending \cup {[id |-> started + 1, manual |-> showRefreshing]}
    /\ refreshing' = IF showRefreshing THEN TRUE ELSE refreshing
    /\ error' = Null
    /\ UNCHANGED <<riverData, loading, floodRisk, completed>>

\* the effect runs after the first render: loadRiverData() and setInterval
Mount ==
    /\ ~mounted
    /\ mounted' = TRUE
    /\ StartLoad(FALSE)

\* the interval fires: loadRiverData(false)
TimerTick ==
    /\ mounted
    /\ StartLoad(FALSE)
    /\ UNCHANGED mounted

\* the refresh button is clicked: loadRiverData(true).  The button is
\* rendered once loading is false and is disabled while refreshing is true.
ClickRefresh ==
    /\ mounted
    /\ ~loading
    /\ ~refreshing
    /\ StartLoad(TRUE)
    /\ UNCHANGED mounted

\* fetchRiverData returns to a waiting call, which runs to its end
LoadComplete ==
    /\ \E load \in pending, loaded \in FetchResults :
         /\ riverData' = NextRiverData(riverData, loaded)
         /\ floodRisk' = NextFloodRisk(riverData, loaded)
         /\ loading' = FALSE
         /\ refreshing' = FALSE
         /\ pending' = pending \ {load}
         /\ completed' = Append(completed,
                                [id |-> load.id, manual |-> load.manual, data |-> loaded])
    /\ UNCHANGED <<mounted, error, started>>

----------------------------------------------------------------------------
(* Specifications *)

\* one invocation of fetchRiverData
Init == FetchInit /\ ClsIdle /\ RiskIdle /\ NormIdle /\ AppIdle

Next ==
    \/ Invoke /\ UNCHANGED <<clsVars, riskVars, normVars, appVars>>
    \/ SettlePrimary /\ UNCHANGED <<clsVars, riskVars, normVars, appVars>>
    \/ SettleSecondary /\ UNCHANGED <<clsVars, riskVars, normVars, appVars>>

Spec == Init /\ [][Next]_vars

\* determineAlertLevel on a station name and two levels
AlertInit ==
    /\ ClsInit
    /\ RiskIdle
    /\ NormIdle
    /\ AppIdle
    /\ pc = "off"
    /\ requests = << >>
    /\ inflight = {}
    /\ settled = [irrigation |-> Pending, dmc |-> Pending]
    /\ data = Undefined
    /\ outcome = [kind |-> "none"]

AlertNext == Classify /\ UNCHANGED <<fetchVars, riskVars, normVars, appVars>>

AlertSpec == AlertInit /\ [][AlertNext]_vars

\* calculateFloodRisk on a list of readings
RiskSpecInit ==
    /\ RiskInit
    /\ ClsIdle
    /\ NormIdle
    /\ AppIdle
    /\ pc = "off"
    /\ requests = << >>
    /\ inflight = {}
    /\ settled = [irrigation |-> Pending, dmc |-> Pending]
    /\ data = Undefined
    /\ outcome = [kind |-> "none"]

RiskNext ==
    \/ RiskEnter /\ UNCHANGED <<fetchVars, clsVars, normVars, appVars>>
    \/ RiskStep /\ UNCHANGED <<fetchVars, clsVars, normVars, appVars>>
    \/ RiskReturn /\ UNCHANGED <<fetchVars, clsVars, normVars, appVars>>

RiskSpec == RiskSpecInit /\ [][RiskNext]_vars

\* parseRiverData on a payload
NormSpecInit ==
    /\ NormInit
    /\ ClsIdle
    /\ RiskIdle
    /\ AppIdle
    /\ pc = "off"
    /\ requests = << >>
    /\ inflight = {}
    /\ settled = [irrigation |-> Pending, dmc |-> Pending]
    /\ data = Undefined
    /\ outcome = [kind |-> "none"]

NormNext ==
    \/ NormEnter /\ UNCHANGED <<fetchVars, clsVars, riskVars, appVars>>
    \/ NormMapStep /\ UNCHANGED <<fetchVars, clsVars, riskVars, appVars>>
    \/ NormFilter /\ UNCHANGED <<fetchVars, clsVars, riskVars, appVars>>

NormSpec == NormSpecInit /\ [][NormNext]_vars

\* the App component under timer-driven and manual loads
AppSpecInit ==
    /\ AppInit
    /\ ClsIdle
    /\ RiskIdle
    /\ NormIdle
    /\ pc = "off"
    /\ requests = << >>
    /\ inflight = {}
    /\ settled = [irrigation |-> Pending, dmc |-> Pending]
    /\ data = Undefined
    /\ outcome = [kind |-> "none"]

AppNext ==
    \/ Mount /\ UNCHANGED <<fetchVars, clsVars, riskVars, normVars>>
    \/ TimerTick /\ UNCHANGED <<fetchVars, clsVars, riskVars, normVars>>
    \/ ClickRefresh /\ UNCHANGED <<fetchVars, clsVars, riskVars, normVars>>
    \/ LoadComplete /\ UNCHANGED <<fetchVars, clsVars, riskVars, normVars>>

AppSpec == AppSpecInit /\ [][AppNext]_vars

----------------------------------------------------------------------------
(* Properties of the fetch chain (Spec) *)

ReadingFields ==
    {"station", "river", "level", "alert", "rateOfRise", "rising",
     "lastMeasured", "coordinates", "isCritical"}

\* v is a list of station records
IsReadingList(v) ==
    /\ DOMAIN v = 1..Len(v)
    /\ \A i \in 1..Len(v) : DOMAIN v[i] = ReadingFields

\* a result that is null (the request failed, or the document is null) or
\* empty (an empty array, an empty text, false)
EmptyResult(v) == v \in {Null, Arr(<< >>), Str(<< >>), Bool(FALSE)}

\* a result with no station objects in it: null, an empty array, an object
\* with neither a stations nor a data key, or one whose list is empty
NoStationObjects(v) ==
    \/ v = Null
    \/ v = Arr(<< >>)
    \/ /\ v.t = "obj"
       /\ \/ DOMAIN v.v \cap {"stations", "data"} = {}
          \/ Get(v, "stations") = Arr(<< >>)
          \/ Get(v, "data") = Arr(<< >>)

SampleNames ==
    <<NagalagamStreet, Peradeniya, Moragaswewa, Thanthirimale,
      Hanwella, Glencourse, Rathnapura, Kalawellawa>>

\* C1: fetchRiverData never raises to its caller; whatever the two requests
\* do, and whatever the shape of a payload, a completed invocation has
\* returned a list of station records.
C1_NeverRaises ==
    /\ outcome.kind # "raised"
    /\ pc = "done" => outcome.kind = "returned" /\ IsReadingList(outcome.value)

\* the normalizer threw on a payload and the invocation still returned
C1_Witness ==
    /\ pc = "done"
    /\ outcome.via = "catch"
    /\ ~NeedsFallback(data)

\* C2: the primary source is requested exactly once and first; the secondary
\* at most once, only after the primary request has settled and only when
\* its result was empty or null; no source is requested twice and no two
\* requests are in flight together.
C2_RequestOrder ==
    /\ requests \in { << >>, <<DATA_SOURCES.irrigation>>,
                      <<DATA_SOURCES.irrigation, DATA_SOURCES.dmc>> }
    /\ pc # "idle" => Len(requests) >= 1
    /\ Cardinality(inflight) <= 1
    /\ Len(requests) = 2 =>
          /\ DATA_SOURCES.irrigation \notin inflight
          /\ settled.irrigation # Pending
          /\ EmptyResult(settled.irrigation)
    /\ pc = "done" => inflight = {}

\* both sources were requested, one after the other
C2_Witness ==
    /\ pc = "done"
    /\ requests = <<DATA_SOURCES.irrigation, DATA_SOURCES.dmc>>
    /\ settled.dmc # Pending

\* C3: a response with no station objects in it is treated as a failed
\* request is: after such a primary response the secondary is requested,
\* and after two such responses the sample data is returned.
C3_MalformedIsFailure ==
    /\ (settled.irrigation # Pending /\ NoStationObjects(settled.irrigation))
          => Len(requests) = 2
    /\ (pc = "done" /\ NoStationObjects(settled.irrigation)
                    /\ NoStationObjects(settled.dmc))
          => outcome.via = "sample"

\* C4: when both results are empty or unavailable the invocation returns
\* the 8 built-in sample records, in their order, as they are written in
\* the source (their stored alert labels are not recomputed).
C4_SampleData ==
    (pc = "done" /\ EmptyResult(settled.irrigation) /\ EmptyResult(settled.dmc))
    => /\ outcome.kind = "returned"
       /\ Len(outcome.value) = 8
       /\ \A i \in 1..8 : outcome.value[i].station = Str(SampleNames[i])
       /\ \E now \in Times : outcome.value = getSampleData(now)
       /\ outcome.value[5].alert = MinorFlood
       /\ outcome.value[5].level = Num(969000)

\* both requests ended without a result and the sample data was returned
C4_Witness ==
    /\ pc = "done"
    /\ settled.irrigation = Null
    /\ settled.dmc = Arr(<< >>)
    /\ outcome.via = "sample"

\* C5: every record of a list produced by the normalizer has a level that
\* is a real number.
C5_LevelsAreNumbers ==
    (pc = "done" /\ outcome.via = "normalizer")
    => \A i \in 1..Len(outcome.value) : outcome.value[i].level.t = "num"

\* C6: in every returned list, each record's alert is the tier that the
\* classification rule gives for its station name and level.
C6_AlertMatchesLevel ==
    pc = "done"
    => \A i \in 1..Len(outcome.value) :
          outcome.value[i].alert =
              determineAlertLevel(outcome.value[i].station, outcome.value[i].level)

----------------------------------------------------------------------------
(* Properties of the classifier (AlertSpec) *)

\* the tiers with their cutoffs for a station name, most severe first
TierCutoffs(name) ==
    LET t == IF name.v \in DOMAIN ALERT_THRESHOLDS
             THEN ALERT_THRESHOLDS[name.v]
             ELSE ALERT_THRESHOLDS[Default]
    IN  << <<MajorFlood, t.major>>, <<MinorFlood, t.minor>>, <<Alert, t.alert>> >>

\* the first tier whose cutoff the level reaches, else Normal
FirstTierReached(name, level) ==
    LET tc  == TierCutoffs(name)
        hit == { i \in 1..3 : level >= tc[i][2] }
    IN  IF hit = {} THEN Normal
        ELSE tc[CHOOSE i \in hit : \A j \in hit : i <= j][1]

Rank(tier) ==
    CASE tier = Normal -> 0 [] tier = Alert -> 1
      [] tier = MinorFlood -> 2 [] tier = MajorFlood -> 3

\* C8: for every station name and levels a <= b, the tier of b is at least
\* as severe as the tier of a.
C8_Monotonic ==
    clsPc = "done" => (clsA <= clsB /\ Rank(clsTierA) <= Rank(clsTierB))

\* two levels of a station outside the table, in different tiers
C8_Witness ==
    /\ clsPc = "done"
    /\ clsName.v \notin DOMAIN ALERT_THRESHOLDS
    /\ clsA < clsB
    /\ Rank(clsTierA) < Rank(clsTierB)

----------------------------------------------------------------------------
(* Properties of the risk scorer (RiskSpec) *)

\* the sum of the contributions of the stations of list, all of them or
\* the critical ones only
RECURSIVE SumRisk(_, _)
SumRisk(list, criticalOnly) ==
    IF list = << >> THEN 0
    ELSE (IF criticalOnly /\ ~Head(list).isCritical THEN 0
          ELSE StationRisk(Head(list)))
             + SumRisk(Tail(list), criticalOnly)

\* round(min(100, total / divisor)): 100 when the quotient is at least 100,
\* else the integer r with r <= total/divisor + 1/2 < r + 1
RoundMin100(total, divisor) ==
    IF total >= 100 * divisor THEN 100
    ELSE CHOOSE r \in 0..100 :
            /\ 2 * r * divisor <= 2 * total + divisor
            /\ 2 * total + divisor < 2 * (r + 1) * divisor

\* C9 as claimed: the score of a non-empty list is
\* round(min(100, (S + C) / (n + 4))), S the sum of all contributions and C
\* the sum of the critical stations' contributions counted once more.
C9_DoubleWeighted ==
    (riskPc = "done" /\ stations.t = "arr" /\ stations.v # << >>)
    => score = RoundMin100(SumRisk(stations.v, FALSE)
                             + SumRisk(stations.v, TRUE),
                           Len(stations.v) + 4)

\* C9 as amended: C is twice the sum of the critical stations'
\* contributions (a critical station counts three times in all), and the 8
\* built-in sample stations score 58.
C9_TripleWeighted ==
    (riskPc = "done" /\ stations.t = "arr" /\ stations.v # << >>)
    => /\ score = RoundMin100(SumRisk(stations.v, FALSE)
                                + 2 * SumRisk(stations.v, TRUE),
                              Len(stations.v) + 4)
       /\ stations = Arr(getSampleData(SampleTime)) => score = 58

\* the built-in sample stations, scored
C9_Witness ==
    /\ riskPc = "done"
    /\ stations = Arr(getSampleData(SampleTime))
    /\ totalRisk = 270
    /\ criticalStationRisk = 420

\* C10: the score is an integer from 0 to 100, and it is 0 for an empty or
\* absent list.
C10_ScoreRange ==
    riskPc = "done"
    => /\ score \in 0..100
       /\ stations \in {Undefined, Null, Arr(<< >>)} => score = 0

\* a list whose weighted average exceeds 100, scored
C10_Witness ==
    /\ riskPc = "done"
    /\ stations.t = "arr"
    /\ totalRisk + criticalStationRisk > 100 * (Len(stations.v) + 4)
    /\ score = 100

\* the contribution of a station as the rule states it: severity by tier
\* plus rise by trend
Severity(tier) ==
    CASE tier = MajorFlood -> 40 [] tier = MinorFlood -> 25
      [] tier = Alert -> 10 [] tier = Normal -> 0

Rise(station) ==
    IF station.rising /\ station.rateOfRise.v > 5000 THEN 20
    ELSE IF station.rising /\ station.rateOfRise.v <= 5000 THEN 10
    ELSE 0

Contribution(station) == Severity(station.alert) + Rise(station)

\* C11: each station contributes severity + rise, severity 40, 25, 10 or 0 by
\* tier, rise 20 when rising with rateOfRise > 0.05, 10 when rising with
\* rateOfRise <= 0.05 and 0 when not rising; so totalRisk is at every moment
\* the sum of these contributions of the stations visited so far, each of
\* them one of 0, 10, 20, 25, 30, 35, 40, 45, 50, 60.
C11_Contribution ==
    (riskPc \in {"loop", "done"} /\ stations.t = "arr" /\ idx >= 1)
    => /\ \A i \in 1..(idx - 1) :
             Contribution(stations.v[i]) \in {0, 10, 20, 25, 30, 35, 40, 45, 50, 60}
       /\ LET sums[i \in 0..(idx - 1)] ==
                  IF i = 0 THEN 0 ELSE sums[i - 1] + Contribution(stations.v[i])
          IN  totalRisk = sums[idx - 1]

\* a Minor Flood station rising at exactly 0.05, scored alone
C11_Witness ==
    /\ riskPc = "done"
    /\ stations.t = "arr"
    /\ Len(stations.v) = 1
    /\ stations.v[1].alert = MinorFlood
    /\ stations.v[1].rising
    /\ stations.v[1].rateOfRise = Num(5000)
    /\ totalRisk = 35

----------------------------------------------------------------------------
(* Properties of the normalizer (NormSpec) *)

\* C12: a list L normalizes to the same output whether it comes bare, as
\* {stations: L} or as {data: L}; null and an object with neither key
\* normalize to the empty list.
C12_ShapesAgree ==
    normPc = "done"
    => /\ normShape \in {"bare", "stations", "data"}
             => normOut = parseRiverData(Arr(normList), normNow)
       /\ normShape = "none" => normOut = [threw |-> FALSE, value |-> << >>]

\* two stations under the data key, one of them kept
C12_Witness ==
    /\ normPc = "done"
    /\ normShape = "data"
    /\ Len(normList) = 2
    /\ ~normOut.threw
    /\ Len(normOut.value) = 1

\* x has the fields of the canonical record
IsCanonical(x) == x.t = "obj" /\ DOMAIN x.v = ReadingFields

\* C13: a record of the canonical shape, with any station name and any
\* numeric level, 0 too, normalizes to exactly one record with the same
\* coordinates, level and river.
C13_RoundTrip ==
    (normPc = "done" /\ normShape = "bare" /\ Len(normList) = 1
                     /\ IsCanonical(normList[1]))
    => /\ ~normOut.threw
       /\ Len(normOut.value) = 1
       /\ normOut.value[1].coordinates = Get(normList[1], "coordinates").v
       /\ normOut.value[1].level = Get(normList[1], "level")
       /\ normOut.value[1].river = Get(normList[1], "river")

NameAliases  == {"station_name", "station", "name", "Station"}
RiverAliases == {"river_basin", "river", "basin", "River"}
LevelAliases == {"level_m", "level", "water_level", "Level"}
RateAliases  == {"rate_of_rise", "rate", "change_rate"}
PlaceAliases == {"latitude", "longitude"}

Lacks(x, aliases) == DOMAIN x.v \cap aliases = {}

InRegistry(name) == name.t = "str" /\ name.v \in DOMAIN CRITICAL_STATIONS

C15_NoNullClassified ==
    \A i \in 1..Len(normClassified) : normClassified[i] # Null

----------------------------------------------------------------------------
(* Properties of the App component (AppSpec) *)

Ids(loads) == { l.id : l \in loads }

CompletedIds == { completed[i].id : i \in 1..Len(completed) }

\* C16: overlapping calls of loadRiverData all run to their end (none is
\* cancelled or dropped), and the snapshot held is the result of the call
\* that completed last, whichever was started first.
C16_LastWriteWins ==
    /\ riverData = IF completed = << >> THEN << >>
                   ELSE completed[Len(completed)].data
    /\ Ids(pending) \cup CompletedIds = 1..started
    /\ Ids(pending) \cap CompletedIds = {}
    /\ Cardinality(CompletedIds) = Len(completed)

\* a manual refresh started during a timer-driven load and completed before
\* it, with a different result
C16_Witness ==
    /\ Len(completed) = 3
    /\ completed[2].id = 3 /\ completed[2].manual
    /\ completed[3].id = 2 /\ ~completed[3].manual
    /\ completed[2].data # completed[3].data
    /\ riverData = completed[3].data

\* the score of a list by the formula of calculateFloodRisk
ScoreOf(list) ==
    IF list = << >> THEN 0
    ELSE RoundMin100(SumRisk(list, FALSE) + 2 * SumRisk(list, TRUE), Len(list) + 4)

\* C17: in every state of the App the floodRisk shown is the score of the
\* riverData shown (the empty list and 0 at first), under any interleaving
\* of loads.
C17_RiskMatchesData ==
    floodRisk = ScoreOf(riverData)

\* two overlapping loads have completed with different results
C17_Witness ==
    /\ Len(completed) = 3
    /\ completed[2].id = 3
    /\ completed[3].id = 2
    /\ ScoreOf(completed[2].data) # ScoreOf(completed[3].data)
    /\ floodRisk = ScoreOf(completed[3].data)
    /\ floodRisk > 0

\* C18: refreshing is true as long as a manual refresh is in flight.
C18_RefreshingWhileManual ==
    (\E load \in pending : load.manual) => refreshing

====
